---- MODULE Spec2Model ----
(***************************************************************************)
(* SlangDecoder (streamlit_app.py): the dictionary builder                 *)
(* load_data_and_model, the normalizer normalize_slang, and the session    *)
(* script (session state initialisation, the main gate, the Normalizer tab *)
(* and the Add Slang form).                                                *)
(*                                                                         *)
(* A Python str is a sequence of one-character strings, so that lower(),   *)
(* strip(), split() and join() are computed character by character.        *)
(***************************************************************************)
EXTENDS Naturals, Sequences, FiniteSets, TLC

(***************************************************************************)
(* Bounds of the model.                                                    *)
(***************************************************************************)
\* longest raw table (in rows) the builder is given
MaxRows == 2
\* longest enumerated input text of the normalizer
MaxLen == 3

(***************************************************************************)
(* Python str primitives.                                                  *)
(***************************************************************************)
\* the characters str.split() and str.strip() treat as whitespace
Whitespace == {" ", "\t", "\n", "\r", "\f"}

\* string.punctuation (its backquote cannot be written in a string literal
\* here and is left out; no text of the model contains one)
Punctuation ==
    {"!", "\"", "#", "$", "%", "&", "'", "(", ")", "*", "+", ",", "-", ".",
     "/", ":", ";", "<", "=", ">", "?", "@", "[", "\\", "]", "^", "_",
     "{", "|", "}", "~"}

UpperCase ==
    <<"A", "B", "C", "D", "E", "F", "G", "H", "I", "J", "K", "L", "M",
      "N", "O", "P", "Q", "R", "S", "T", "U", "V", "W", "X", "Y", "Z">>

LowerCase ==
    <<"a", "b", "c", "d", "e", "f", "g", "h", "i", "j", "k", "l", "m",
      "n", "o", "p", "q", "r", "s", "t", "u", "v", "w", "x", "y", "z">>

\* the lower-case letter of each upper-case letter
ToLower ==
    [c \in {UpperCase[i] : i \in 1..Len(UpperCase)} |->
        LowerCase[CHOOSE i \in 1..Len(UpperCase) : UpperCase[i] = c]]

\* one character of str.lower()
LowerChar(c) == IF c \in DOMAIN ToLower THEN ToLower[c] ELSE c

\* str.lower()
lower(s) == [i \in 1..Len(s) |-> LowerChar(s[i])]

RECURSIVE lstrip(_, _)
\* str.lstrip(chars)
lstrip(s, chars) ==
    IF s # <<>> /\ Head(s) \in chars THEN lstrip(Tail(s), chars) ELSE s

RECURSIVE rstrip(_, _)
\* str.rstrip(chars)
rstrip(s, chars) ==
    IF s # <<>> /\ s[Len(s)] \in chars
    THEN rstrip(SubSeq(s, 1, Len(s) - 1), chars)
    ELSE s

\* str.strip(chars); strip(s, Whitespace) is str.strip()
strip(s, chars) == rstrip(lstrip(s, chars), chars)

RECURSIVE FirstWord(_)
\* the leading run of non-whitespace characters of s
FirstWord(s) ==
    IF s = <<>> \/ Head(s) \in Whitespace
    THEN <<>>
    ELSE <<Head(s)>> \o FirstWord(Tail(s))

RECURSIVE split(_)
\* str.split(): the maximal runs of non-whitespace characters, in order
split(s) ==
    LET t == lstrip(s, Whitespace)
        w == FirstWord(t)
    IN  IF t = <<>>
        THEN <<>>
        ELSE <<w>> \o split(SubSeq(t, Len(w) + 1, Len(t)))

RECURSIVE join_nosep(_, _)
\* join that forgets the separator: "".join(words)
join_nosep(sep, words) ==
    IF words = <<>> THEN <<>> ELSE Head(words) \o join_nosep(sep, Tail(words))

RECURSIVE join(_, _)
\* sep.join(words)
join(sep, words) ==
    IF words = <<>>
    THEN <<>>
    ELSE IF Len(words) = 1
         THEN Head(words)
         ELSE Head(words) \o sep \o join(sep, Tail(words))

(***************************************************************************)
(* The strings the model names.                                            *)
(***************************************************************************)
\* the str '?'
S_question ==
    <<"?">>

\* the str 'I have a question'
S_header_meaning ==
    <<"I", " ", "h", "a", "v", "e", " ", "a", " ", "q", "u", "e", "s",
      "t", "i", "o", "n">>

\* the str 'i have a question'
S_header_meaning_lc ==
    <<"i", " ", "h", "a", "v", "e", " ", "a", " ", "q", "u", "e", "s",
      "t", "i", "o", "n">>

\* the str 'LOL'
S_LOL ==
    <<"L", "O", "L">>

\* the str 'lol'
S_lol ==
    <<"l", "o", "l">>

\* the str 'laughing out loud'
S_laughing_out_loud ==
    <<"l", "a", "u", "g", "h", "i", "n", "g", " ", "o", "u", "t", " ", 
      "l", "o", "u", "d">>

\* the str 'laugh out loud'
S_laugh_out_loud ==
    <<"l", "a", "u", "g", "h", " ", "o", "u", "t", " ", "l", "o", "u", "d">>

\* the str 'IT'
S_IT ==
    <<"I", "T">>

\* the str 'it'
S_it ==
    <<"i", "t">>

\* the str 'pronoun'
S_pronoun ==
    <<"p", "r", "o", "n", "o", "u", "n">>

\* the str 'wyd'
S_wyd ==
    <<"w", "y", "d">>

\* the str 'what you doing'
S_what_you_doing ==
    <<"w", "h", "a", "t", " ", "y", "o", "u", " ", "d", "o", "i", "n", "g">>

\* the str 'FTW'
S_FTW ==
    <<"F", "T", "W">>

\* the str 'ftw'
S_ftw ==
    <<"f", "t", "w">>

\* the str 'For The Win'
S_For_The_Win ==
    <<"F", "o", "r", " ", "T", "h", "e", " ", "W", "i", "n">>

\* the str 'for the win'
S_for_the_win ==
    <<"f", "o", "r", " ", "t", "h", "e", " ", "w", "i", "n">>

\* the str 'anything'
S_anything ==
    <<"a", "n", "y", "t", "h", "i", "n", "g">>

\* the str '  '
S_blank ==
    <<" ", " ">>

\* the str ' '
S_space ==
    <<" ">>

\* the str 'LOL!'
S_LOL_bang ==
    <<"L", "O", "L", "!">>

\* the str 'wyd lol, ttyl!'
S_example_text ==
    <<"w", "y", "d", " ", "l", "o", "l", ",", " ", "t", "t", "y", "l", "!">>

\* the str 'what you doing laughing out loud, ttyl!'
S_example_claimed ==
    <<"w", "h", "a", "t", " ", "y", "o", "u", " ", "d", "o", "i", "n",
      "g", " ", "l", "a", "u", "g", "h", "i", "n", "g", " ", "o", "u",
      "t", " ", "l", "o", "u", "d", ",", " ", "t", "t", "y", "l", "!">>

\* the str 'what you doing laughing out loud ttyl!'
S_example_output ==
    <<"w", "h", "a", "t", " ", "y", "o", "u", " ", "d", "o", "i", "n",
      "g", " ", "l", "a", "u", "g", "h", "i", "n", "g", " ", "o", "u",
      "t", " ", "l", "o", "u", "d", " ", "t", "t", "y", "l", "!">>

\* the str 'x'
S_extra ==
    <<"x">>

(***************************************************************************)
(* load_data_and_model: the dictionary builder.  A DataFrame is the        *)
(* sequence of its rows in index order; a raw table row is the sequence of *)
(* its cells, a cleaned row the record [slang, meaning].                   *)
(***************************************************************************)
RECURSIVE take(_, _, _)
\* the rows of df from position i on whose position is in keep, in order
take(df, keep, i) ==
    IF i > Len(df)
    THEN <<>>
    ELSE (IF i \in keep THEN <<df[i]>> ELSE <<>>) \o take(df, keep, i + 1)

\* df.iloc[:, :2] with df.columns = ['slang', 'meaning']
first_two_columns(table) ==
    [i \in 1..Len(table) |-> [slang |-> table[i][1], meaning |-> table[i][2]]]

\* if df.iloc[0]['slang'] == '?' and df.iloc[0]['meaning'] == 'I have a
\* question': df = df.iloc[1:]      (df has at least one row)
drop_header(df) ==
    IF df[1].slang = S_question /\ df[1].meaning = S_header_meaning
    THEN Tail(df)
    ELSE df

\* df.drop_duplicates(subset=['slang']): a row is kept unless an earlier row
\* has the same slang cell
drop_duplicates(df) ==
    take(df,
         {i \in 1..Len(df) : \A j \in 1..(i - 1) : df[j].slang # df[i].slang},
         1)

\* df[c] = df[c].astype(str).str.lower().str.strip(), for both columns
clean_columns(df) ==
    [i \in 1..Len(df) |->
        [slang   |-> strip(lower(df[i].slang), Whitespace),
         meaning |-> strip(lower(df[i].meaning), Whitespace)]]

\* a denylist filter that drops nothing
drop_it_none(df) == df

\* bad_index = df[df['slang'] == 'it'].index; df = df.drop(bad_index)
drop_it(df) ==
    take(df, {i \in 1..Len(df) : df[i].slang # S_it}, 1)

\* df.set_index('slang')['meaning'].to_dict(): a dict built from the
\* (slang, meaning) pairs in row order, so a later pair replaces an earlier one
to_dict(df) ==
    [k \in {df[i].slang : i \in 1..Len(df)} |->
        df[CHOOSE i \in 1..Len(df) :
              /\ df[i].slang = k
              /\ \A j \in (i + 1)..Len(df) : df[j].slang # k].meaning]

\* Python's None, and a dict, as values of one shape
None == [isNone |-> TRUE, d |-> <<>>]

Dict(d) == [isNone |-> FALSE, d |-> d]

\* load_data_and_model(): fetch_ok says whether the download and the file
\* lookup went through; table is what pd.read_csv(header=None) read, its
\* cells taken as the strings pandas holds.  st.cache_data hands every caller
\* its own copy of the result, so one session is modelled on its own.
load_data_and_model(fetch_ok, table) ==
    IF ~fetch_ok
    THEN None                          \* exception, or abbreviations.csv missing
    ELSE IF Len(table) = 0
    THEN None                          \* read_csv raises on an empty file
    ELSE IF Len(table[1]) < 2
    THEN None                          \* fewer than two columns
    ELSE Dict(to_dict(drop_it(clean_columns(drop_duplicates(
                 drop_header(first_two_columns(table)))))))

(***************************************************************************)
(* normalize_slang: the normalizer.                                        *)
(***************************************************************************)
\* a cleaning that forgets lower()
clean_word_nolower(word) == strip(word, Punctuation)

\* a cleaning that forgets strip(string.punctuation)
clean_word_nostrip(word) == lower(word)

\* clean_word = word.lower().strip(string.punctuation)
clean_word(word) == strip(lower(word), Punctuation)

\* slang_dict.get(key, default)
get(slang_dict, key, default) ==
    IF key \in DOMAIN slang_dict THEN slang_dict[key] ELSE default

\* normalize_slang(sentence, slang_dict)
normalize_slang(sentence, slang_dict) ==
    LET words == split(sentence)
        normalized_words ==
            [i \in 1..Len(words) |->
                get(slang_dict, clean_word(words[i]), words[i])]
    IN  join(S_space, normalized_words)

(***************************************************************************)
(* The Add Slang form.                                                     *)
(***************************************************************************)
\* a submit handler that stores the meaning whether or not the key exists
add_slang_form_overwrite(d, new_slang, new_meaning) ==
    IF new_slang = <<>> \/ new_meaning = <<>>
    THEN [d |-> d, message |-> "error"]
    ELSE LET clean_slang == strip(lower(new_slang), Whitespace)
             clean_meaning == strip(lower(new_meaning), Whitespace)
         IN  [d |-> [k \in DOMAIN d \cup {clean_slang} |->
                        IF k = clean_slang THEN clean_meaning ELSE d[k]],
              message |-> IF clean_slang \in DOMAIN d
                          THEN "warning" ELSE "success"]

\* the body of `if submitted:`: the dict after the submit and the message
\* shown (st.error, st.warning or st.success)
add_slang_form(d, new_slang, new_meaning) ==
    IF new_slang = <<>> \/ new_meaning = <<>>
    THEN [d |-> d, message |-> "error"]
    ELSE LET clean_slang == strip(lower(new_slang), Whitespace)
             clean_meaning == strip(lower(new_meaning), Whitespace)
         IN  IF clean_slang \in DOMAIN d
             THEN [d |-> d, message |-> "warning"]
             ELSE [d |-> [k \in DOMAIN d \cup {clean_slang} |->
                             IF k = clean_slang THEN clean_meaning ELSE d[k]],
                   message |-> "success"]

(***************************************************************************)
(* The session: one run of the script per action.                          *)
(***************************************************************************)
VARIABLES
    table,            \* what pd.read_csv reads when the builder runs
    inSession,        \* 'slang_dict' in st.session_state
    slang_dict,       \* st.session_state.slang_dict: None or a dict
    builds,           \* calls of load_data_and_model made by this session
    screen,           \* what the last run drew: "blank", "tabs" or "error"
    user_input,       \* the text area of the Normalizer tab
    normalized_text,  \* the Normalizer tab's right column
    message,          \* what the Add Slang form last showed
    sentence,         \* normalize_slang taken alone: its sentence argument,
    snapshot,         \*   its slang_dict argument,
    once,             \*   its result,
    twice,            \*   its result on that result and the same dict,
    pc                \*   and how far the calls have got

session_vars ==
    <<table, inSession, slang_dict, builds, screen, user_input,
      normalized_text, message>>

normalizer_vars == <<sentence, snapshot, once, twice, pc>>

vars == <<session_vars, normalizer_vars>>

\* the raw rows the tables are made of
RowPool ==
    { [slang |-> S_question, meaning |-> S_header_meaning],
      [slang |-> S_question, meaning |-> S_header_meaning_lc],
      [slang |-> S_LOL,      meaning |-> S_laughing_out_loud],
      [slang |-> S_lol,      meaning |-> S_laugh_out_loud],
      [slang |-> S_IT,       meaning |-> S_pronoun] }

\* the column counts of the tables
Shapes == {1, 2, 3}

\* the cells of a row of a table with c columns
Cells(r, c) ==
    [j \in 1..c |-> IF j = 1 THEN r.slang
                    ELSE IF j = 2 THEN r.meaning ELSE S_extra]

Tables ==
    UNION { { [i \in 1..n |-> Cells(rows[i], c)] :
                rows \in [1..n -> RowPool], c \in Shapes } : n \in 0..MaxRows }

\* what the user types into the text area
UserInputs == { <<>>, S_LOL_bang }

\* what the user types into the form's two fields before submitting
FormInputs ==
    { [new_slang |-> <<>>,    new_meaning |-> S_For_The_Win],
      [new_slang |-> S_FTW,   new_meaning |-> <<>>],
      [new_slang |-> S_blank, new_meaning |-> S_For_The_Win],
      [new_slang |-> S_FTW,   new_meaning |-> S_For_The_Win],
      [new_slang |-> S_FTW,   new_meaning |-> S_anything],
      [new_slang |-> S_IT,    new_meaning |-> S_pronoun],
      [new_slang |-> S_IT,    new_meaning |-> S_space] }

\* the right column when user_input is empty
Placeholder == [shown |-> FALSE, text |-> <<>>]

Shown(text) == [shown |-> TRUE, text |-> text]

\* `if st.session_state.slang_dict:` -- None and the empty dict are falsy
Truthy(v) == ~v.isNone /\ DOMAIN v.d # {}

\* tab1: the right column for the text area's content
tab1(input, d) ==
    IF input # <<>> THEN Shown(normalize_slang(input, d)) ELSE Placeholder

\* the normalizer is not called outside the session
NormalizerIdle ==
    /\ sentence = <<>>
    /\ snapshot = <<>>
    /\ once = <<>>
    /\ twice = <<>>
    /\ pc = "idle"

Init ==
    /\ NormalizerIdle
    /\ table \in Tables
    /\ inSession = FALSE
    /\ slang_dict = None
    /\ builds = 0
    /\ screen = "blank"
    /\ user_input = <<>>
    /\ normalized_text = Placeholder
    /\ message = "none"

\* the session's first run: 'slang_dict' is not in st.session_state, so the
\* builder runs and its result is stored; then the gate
FirstRun ==
    /\ ~inSession
    /\ \E fetch_ok \in BOOLEAN :
          LET built == load_data_and_model(fetch_ok, table)
          IN  /\ slang_dict' = built
              /\ screen' = IF Truthy(built) THEN "tabs" ELSE "error"
    /\ inSession' = TRUE
    /\ builds' = builds + 1
    /\ normalized_text' = Placeholder
    /\ UNCHANGED <<table, user_input, message, normalizer_vars>>

\* a rerun after the user edited the text area (the tabs are on screen)
NormalizeRun ==
    /\ inSession
    /\ Truthy(slang_dict)
    /\ \E text \in UserInputs :
          /\ user_input' = text
          /\ normalized_text' = tab1(text, slang_dict.d)
    /\ screen' = "tabs"
    /\ message' = "none"
    /\ UNCHANGED <<table, inSession, slang_dict, builds, normalizer_vars>>

\* a rerun after the user pressed "Add to Dictionary" with f in the form:
\* tab1 is drawn from the dict as it is, then the form's handler runs
AddSubmit(f) ==
    /\ inSession
    /\ Truthy(slang_dict)
    /\ LET r == add_slang_form(slang_dict.d, f.new_slang, f.new_meaning)
       IN  /\ slang_dict' = Dict(r.d)
           /\ message' = r.message
    /\ normalized_text' = tab1(user_input, slang_dict.d)
    /\ screen' = "tabs"
    /\ UNCHANGED <<table, inSession, builds, user_input, normalizer_vars>>

AddRun == \E f \in FormInputs : AddSubmit(f)

\* a rerun while the gate is closed: only the error is drawn
FailedRun ==
    /\ inSession
    /\ ~Truthy(slang_dict)
    /\ screen' = "error"
    /\ UNCHANGED <<table, inSession, slang_dict, builds, user_input,
                   normalized_text, message, normalizer_vars>>

Next == FirstRun \/ NormalizeRun \/ AddRun \/ FailedRun

Spec == Init /\ [][Next]_vars

(***************************************************************************)
(* normalize_slang taken alone, on enumerated sentences and dicts.         *)
(***************************************************************************)
\* the characters of the enumerated sentences
Alphabet == {"a", "A", "b", "!", " ", "\t"}

\* the dict of the worked example
ExampleDict ==
    [k \in {S_wyd, S_lol} |->
        IF k = S_wyd THEN S_what_you_doing ELSE S_laughing_out_loud]

Sentences ==
    UNION { [1..n -> Alphabet] : n \in 0..MaxLen }
        \cup {S_LOL_bang, S_example_text}

\* keys and meanings of the enumerated dicts
KeyPool == { <<"a">>, <<"a", "b">>, <<>> }

MeaningPool == { <<"b">>, <<"b", " ", "a">>, <<"b", " ", " ", "b">>, <<>> }

Snapshots ==
    UNION { [K -> MeaningPool] : K \in SUBSET KeyPool } \cup {ExampleDict}

InitNorm ==
    /\ sentence \in Sentences
    /\ snapshot \in Snapshots
    /\ once = <<>>
    /\ twice = <<>>
    /\ pc = "start"
    /\ table = <<>>
    /\ inSession = FALSE
    /\ slang_dict = None
    /\ builds = 0
    /\ screen = "blank"
    /\ user_input = <<>>
    /\ normalized_text = Placeholder
    /\ message = "none"

\* once = normalize_slang(sentence, snapshot)
Normalize ==
    /\ pc = "start"
    /\ once' = normalize_slang(sentence, snapshot)
    /\ pc' = "once"
    /\ UNCHANGED <<sentence, snapshot, twice, session_vars>>

\* twice = normalize_slang(once, snapshot)
NormalizeAgain ==
    /\ pc = "once"
    /\ twice' = normalize_slang(once, snapshot)
    /\ pc' = "twice"
    /\ UNCHANGED <<sentence, snapshot, once, session_vars>>

NextNorm == Normalize \/ NormalizeAgain

SpecNorm == InitNorm /\ [][NextNorm]_vars

(***************************************************************************)
(* The whitespace-token policy as a reference, stated over positions of    *)
(* the text and not with split, strip and join.                            *)
(***************************************************************************)
\* the token intervals of s: the maximal <<i, j>> free of whitespace
TokenSpans(s) ==
    { p \in (1..Len(s)) \X (1..Len(s)) :
        /\ p[1] <= p[2]
        /\ p[1] = 1 \/ s[p[1] - 1] \in Whitespace
        /\ p[2] = Len(s) \/ s[p[2] + 1] \in Whitespace
        /\ \A i \in p[1]..p[2] : s[i] \notin Whitespace }

\* the tokens of s, from left to right
Tokens(s) ==
    LET spans == TokenSpans(s)
    IN  [k \in 1..Cardinality(spans) |->
            LET p == CHOOSE q \in spans :
                         Cardinality({r \in spans : r[1] < q[1]}) = k - 1
            IN  [i \in 1..(p[2] - p[1] + 1) |-> s[p[1] + i - 1]]]

\* w lowercased, between its first and its last non-punctuation character
Core(w) ==
    LET inner == {i \in 1..Len(w) : w[i] \notin Punctuation}
        first == CHOOSE i \in inner : \A j \in inner : i <= j
        last  == CHOOSE i \in inner : \A j \in inner : j <= i
    IN  IF inner = {}
        THEN <<>>
        ELSE [i \in 1..(last - first + 1) |-> LowerChar(w[first + i - 1])]

\* what token w contributes under dictionary d
Contribution(w, d) == IF Core(w) \in DOMAIN d THEN d[Core(w)] ELSE w

RECURSIVE Joined(_, _, _)
\* the contributions of the first k of the tokens, single spaces between them
Joined(tokens, d, k) ==
    IF k = 0
    THEN <<>>
    ELSE IF k = 1
         THEN Contribution(tokens[1], d)
         ELSE Joined(tokens, d, k - 1) \o <<" ">> \o Contribution(tokens[k], d)

\* the text the whitespace-token policy makes of s under d
Reference(s, d) == LET tokens == Tokens(s) IN Joined(tokens, d, Len(tokens))

RECURSIVE Squeeze(_, _, _)
\* s with leading and trailing whitespace removed and every other run of
\* whitespace replaced by one space
Squeeze(s, started, pending) ==
    IF s = <<>>
    THEN <<>>
    ELSE IF Head(s) \in Whitespace
         THEN Squeeze(Tail(s), started, started)
         ELSE (IF pending THEN <<" ">> ELSE <<>>)
                  \o <<Head(s)>> \o Squeeze(Tail(s), TRUE, FALSE)

Collapsed(s) == Squeeze(s, FALSE, FALSE)

\* no token of s matches a key of d
NoTokenMatches(s, d) ==
    LET tokens == Tokens(s)
    IN  \A k \in 1..Len(tokens) : Core(tokens[k]) \notin DOMAIN d

(***************************************************************************)
(* Claims about normalize_slang, under SpecNorm.                           *)
(***************************************************************************)
\* C5: normalize(text, dict) equals the whitespace-token reference: every
\* token whose lowercased, punctuation-stripped form is a key is replaced as
\* a whole by that key's meaning, every other token is kept as written, and
\* the tokens are joined by single spaces; a text none of whose tokens
\* matches a key comes back with its whitespace collapsed.
C5_NormalizeIsReference ==
    pc \in {"once", "twice"} =>
        /\ once = Reference(sentence, snapshot)
        /\ NoTokenMatches(sentence, snapshot) => once = Collapsed(sentence)

\* C5 witness: "LOL!" was normalized with lol -> "laughing out loud" and
\* came back as "laughing out loud"
C5_Witness ==
    /\ pc = "once"
    /\ sentence = S_LOL_bang
    /\ S_lol \in DOMAIN snapshot
    /\ snapshot[S_lol] = S_laughing_out_loud
    /\ once = S_laughing_out_loud

\* C6 as claimed: the worked example returns "what you doing laughing out
\* loud, ttyl!", the comma of "lol," still present
C6_ExampleKeepsComma ==
    (pc = "once" /\ sentence = S_example_text /\ snapshot = ExampleDict)
        => once = S_example_claimed

\* C6 as amended: the worked example returns "what you doing laughing out
\* loud ttyl!": "ttyl!" passes through verbatim and the comma of the
\* replaced token "lol," is discarded with the token
C6_ExampleDropsComma ==
    (pc = "once" /\ sentence = S_example_text /\ snapshot = ExampleDict)
        => once = S_example_output

\* C6 witness: the worked example was normalized and no comma is left
C6_Witness ==
    /\ pc = "once"
    /\ sentence = S_example_text
    /\ snapshot = ExampleDict
    /\ \A i \in 1..Len(once) : once[i] # ","
    /\ SubSeq(once, Len(once) - 4, Len(once)) = <<"t", "t", "y", "l", "!">>

\* every meaning of d is absent from d's keys
MeaningsAreNotKeys(d) == \A k \in DOMAIN d : d[k] \notin DOMAIN d

\* every meaning of d is non-empty and single-spaced, and none of its words,
\* lowercased and stripped of punctuation, is a key of d
MeaningsAreStable(d) ==
    \A k \in DOMAIN d :
        /\ d[k] # <<>>
        /\ d[k] = Collapsed(d[k])
        /\ NoTokenMatches(d[k], d)

\* C9 as claimed: whenever every meaning is absent from the keys,
\* normalizing the output again changes nothing
C9_IdempotentIfMeaningsNotKeys ==
    (pc = "twice" /\ MeaningsAreNotKeys(snapshot)) => twice = once

\* C9 as amended: whenever every meaning is non-empty and single-spaced and
\* none of its words, lowercased and stripped of punctuation, is a key,
\* normalizing the output again changes nothing
C9_IdempotentIfMeaningsStable ==
    (pc = "twice" /\ MeaningsAreStable(snapshot)) => twice = once

\* C9 witness: a token was replaced by a multi-word meaning and the second
\* normalization returned the same text
C9_Witness ==
    /\ pc = "twice"
    /\ MeaningsAreStable(snapshot)
    /\ sentence = <<"a", "b">>
    /\ <<"a", "b">> \in DOMAIN snapshot
    /\ once = <<"b", " ", "a">>
    /\ twice = once

(***************************************************************************)
(* Claims about the builder and the session, under Spec.                   *)
(***************************************************************************)
\* lower(trim(cell))
Cleaned(cell) == strip(lower(cell), Whitespace)

\* a cell is empty or whitespace only
Blank(cell) == \A i \in 1..Len(cell) : cell[i] \in Whitespace

\* the step in which the builder runs and returns a dict
BuildReturnsDict == ~inSession /\ inSession' /\ ~slang_dict'.isNone

\* the cleaned meaning of the first row of t whose cleaned slang is k
FirstMeaning(t, k) ==
    Cleaned(t[CHOOSE i \in 1..Len(t) :
                 /\ Cleaned(t[i][1]) = k
                 /\ \A j \in 1..(i - 1) : Cleaned(t[j][1]) # k][2])

\* C1: every entry of the dictionary the builder returns holds the cleaned
\* meaning of the first row, in source order, whose cleaned slang is the
\* entry's key, also when the duplicates differ only in case
C1_FirstOccurrenceWins ==
    [][BuildReturnsDict =>
          \A k \in DOMAIN slang_dict'.d :
              slang_dict'.d[k] = FirstMeaning(table, k)]_vars

\* C2: no dictionary of the session, as built or after any adds, has the
\* key "it"
C2_NeverIt ==
    (inSession /\ ~slang_dict.isNone) => S_it \notin DOMAIN slang_dict.d

\* C3: a submit whose slang or meaning is empty or whitespace only is
\* rejected as invalid and leaves the dictionary as it was, so that the
\* empty string never becomes a key
C3_BlankRejected ==
    [][\A f \in FormInputs :
          (AddSubmit(f) /\ (Blank(f.new_slang) \/ Blank(f.new_meaning)))
              => /\ slang_dict' = slang_dict
                 /\ message' = "error"
                 /\ <<>> \notin DOMAIN slang_dict'.d]_vars

\* C4: add is insert-if-absent on cleaned inputs: for non-blank slang and
\* meaning, an absent cleaned slang is added with the cleaned meaning and
\* nothing else changes, and a present one is refused with the whole
\* dictionary unchanged
C4_InsertIfAbsent ==
    [][\A f \in FormInputs :
          (AddSubmit(f) /\ ~Blank(f.new_slang) /\ ~Blank(f.new_meaning))
              => LET k == Cleaned(f.new_slang)
                     old == slang_dict.d
                     new == slang_dict'.d
                 IN  IF k \in DOMAIN old
                     THEN new = old /\ message' = "warning"
                     ELSE /\ DOMAIN new = DOMAIN old \cup {k}
                          /\ new[k] = Cleaned(f.new_meaning)
                          /\ \A x \in DOMAIN old : new[x] = old[x]
                          /\ message' = "success"]_vars

\* C4 witness: "FTW" was added as ftw -> "for the win" and a later add of an
\* existing key was refused
C4_Witness ==
    /\ inSession
    /\ message = "warning"
    /\ S_ftw \in DOMAIN slang_dict.d
    /\ slang_dict.d[S_ftw] = S_for_the_win

\* C7: no dictionary the builder returns has the entry "?" -> "i have a
\* question", wherever the sentinel text stands in the source and whatever
\* its case
C7_NoSentinelEntry ==
    [][BuildReturnsDict =>
          ~(/\ S_question \in DOMAIN slang_dict'.d
            /\ slang_dict'.d[S_question] = S_header_meaning_lc)]_vars

\* the first row of t is the sentinel header row
HasHeader(t) == t[1][1] = S_question /\ t[1][2] = S_header_meaning

\* no two rows of t have the same cleaned slang
NoDuplicateKeys(t) ==
    \A i, j \in 1..Len(t) : Cleaned(t[i][1]) = Cleaned(t[j][1]) => i = j

\* the rows of t whose cleaned slang is "it"
ItRows(t) == {i \in 1..Len(t) : Cleaned(t[i][1]) = S_it}

\* C8 as claimed: without duplicate slang keys, the built dictionary has as
\* many entries as the source has rows, less one for a sentinel header row
C8_SizeIsRowsLessHeader ==
    [][(BuildReturnsDict /\ NoDuplicateKeys(table)) =>
          Cardinality(DOMAIN slang_dict'.d)
              = Len(table) - (IF HasHeader(table) THEN 1 ELSE 0)]_vars

\* C8 as amended: without duplicate cleaned slang keys, the built dictionary
\* has as many entries as the source has rows, less one for a sentinel
\* header row and less one for a row whose cleaned slang is "it"
C8_SizeIsRowsLessHeaderAndIt ==
    [][(BuildReturnsDict /\ NoDuplicateKeys(table)) =>
          Cardinality(DOMAIN slang_dict'.d)
              = Len(table) - (IF HasHeader(table) THEN 1 ELSE 0)
                           - Cardinality(ItRows(table))]_vars

\* C8 witness: a table of two rows with distinct keys, one of them an "it"
\* row, was built into the single entry of the other row
C8_Witness ==
    /\ inSession
    /\ ~slang_dict.isNone
    /\ message = "none"
    /\ Len(table) = 2
    /\ NoDuplicateKeys(table)
    /\ ~HasHeader(table)
    /\ ItRows(table) # {}
    /\ DOMAIN slang_dict.d = {S_lol}

\* C10: the builder runs at most once per session; when it fails the
\* session shows the error and nothing is normalized or added; when it
\* returns a dictionary the session shows the tabs
C10_Lifecycle ==
    /\ builds <= 1
    /\ (inSession /\ slang_dict.isNone) =>
          /\ screen = "error"
          /\ normalized_text = Placeholder
          /\ message = "none"
    /\ (inSession /\ ~slang_dict.isNone) => screen = "tabs"

====
